---- MODULE Spec2Model ----
(***************************************************************************)
(* A model of pangea-gpt.py: the chat client that redacts the user's text, *)
(* asks the completion service for a reply, redacts the reply, masks the   *)
(* malicious URLs of the reply and keeps the conversation, in its two      *)
(* front ends (the terminal loop run_chat and the HTTP handler chat).      *)
(*                                                                         *)
(* A text is a sequence of one-character strings; offsets are Python's     *)
(* (0-based, half-open).                                                   *)
(***************************************************************************)
EXTENDS Integers, Sequences, FiniteSets, TLC

VARIABLES
    args,           \* the parsed command line of the running process
    fs,             \* the file system: path -> JSON document, or Absent
    pc,             \* the position of the main thread
    previous,       \* run_chat's `previous` / chat()'s `previous`
    edited,         \* run_chat's `edited`
    user_content,   \* the line read by input() / the request's "message"
    classified,     \* the redacted user text (classified / user_redacted)
    content,        \* send_chatgpt_message: the assistant's raw reply
    report,         \* send_chatgpt_message: report.recognizer_results
    intel,          \* the verdict the reputation service holds for each span's domain
    idx,            \* send_chatgpt_message: the position of the for loop
    url,            \* send_chatgpt_message: the domain last handed to reputation()
    redacted_text,  \* send_chatgpt_message: the annotated text being built
    reply,          \* the (gpt_message, redacted) that send_chatgpt_message returned
    response,       \* the HTTP response of the last POST /chat
    error,          \* the exception that ended the process, if any
    netcalls,       \* the external calls made since the turn (or the process) started
    loaded,         \* history: `previous` as the session (or the request) started
    turn_start,     \* history: `previous` as the current turn started
    done,           \* history: the turns completed since `loaded`
    started,        \* history: the turns started by all the sessions
    session,        \* history: the number of the running process
    saved           \* history: path -> the last conversation json.dump wrote there

vars == <<args, fs, pc, previous, edited, user_content, classified, content,
          report, intel, idx, url, redacted_text, reply, response, error,
          netcalls, loaded, turn_start, done, started, session, saved>>

\* ------------------------------------------------------------------ bounds

MaxSpans == 2       \* the spans of a detection report
MaxTurns == 2       \* the turns started, over all sessions
MaxSessions == 2    \* the processes started one after the other

\* ------------------------------------------------------------------- texts

\* an optional value is <<>> (Python's None, a missing file) or <<value>>
Nothing == <<>>
Some(x) == <<x>>
NoPath == "None"

URL == <<"U", "R", "L">>
NRP == <<"N", "R", "P">>
EMAIL_ADDRESS == <<"E", "M", "A", "I", "L", "_", "A", "D", "D", "R", "E", "S", "S">>
MALICIOUS_URL == <<"<", "M", "A", "L", "I", "C", "I", "O", "U", "S", "_", "U", "R", "L", ">">>
HTTP == <<"h", "t", "t", "p", ":", "/", "/">>
HTTPS == <<"h", "t", "t", "p", "s", ":", "/", "/">>

\* "http://evil.com Hindu Muslim"
ReplyA == <<"h", "t", "t", "p", ":", "/", "/", "e", "v", "i", "l", ".", "c", "o", "m", " ",
            "H", "i", "n", "d", "u", " ", "M", "u", "s", "l", "i", "m">>
\* "https://evil.com at evil.io"
ReplyB == <<"h", "t", "t", "p", "s", ":", "/", "/", "e", "v", "i", "l", ".", "c", "o", "m", " ",
            "a", "t", " ", "e", "v", "i", "l", ".", "i", "o">>
\* "evil.io Hindu"
ReplyD == <<"e", "v", "i", "l", ".", "i", "o", " ", "H", "i", "n", "d", "u">>

FieldTypes == {URL, NRP, EMAIL_ADDRESS}
Verdicts == {"malicious", "suspicious", "benign"}

Min(a, b) == IF a < b THEN a ELSE b

\* text[:n]
Take(text, n) == SubSeq(text, 1, Min(n, Len(text)))

\* text[n:]
Drop(text, n) == SubSeq(text, Min(n, Len(text)) + 1, Len(text))

\* text[a:b]
Slice(text, a, b) == SubSeq(text, Min(a, Len(text)) + 1, Min(b, Len(text)))

startswith(text, prefix) ==
    /\ Len(text) >= Len(prefix)
    /\ SubSeq(text, 1, Len(prefix)) = prefix

\* ------------------------------------------------- send_chatgpt_message

\* url = content[start:end] without a leading http:// or https://
strip_scheme(text) ==
    IF startswith(text, HTTP) THEN Drop(text, 7)
    ELSE IF startswith(text, HTTPS) THEN Drop(text, 8)
    ELSE text

replace_word_short_tail(text, replacement, start, end) ==
    Take(text, start) \o replacement \o Drop(text, end + 1)

replace_word_no_init(text, replacement, start, end) ==
    replacement \o Drop(text, end)

replace_word(text, replacement, start, end) ==
    Take(text, start) \o replacement \o Drop(text, end)

mask_malicious_not_benign(text, verdict, start, end) ==
    IF verdict # "benign"
    THEN Take(text, start) \o MALICIOUS_URL \o Drop(text, end)
    ELSE text

\* the branch taken on the verdict of a redacted URL span
mask_malicious(text, verdict, start, end) ==
    IF verdict = "malicious"
    THEN Take(text, start) \o MALICIOUS_URL \o Drop(text, end)
    ELSE text

\* f"<{result.field_type}>"
placeholder(field_type) == <<"<">> \o field_type \o <<">">>

\* one pass of the body of `for result in report.recognizer_results`
annotate(text, result, verdict) ==
    IF result.redacted
    THEN IF result.field_type = URL
         THEN mask_malicious(text, verdict, result.start, result.end)
         ELSE replace_word(text, placeholder(result.field_type), result.start, result.end)
    ELSE text

\* the reputation service is asked about this span
looks_up(result) == result.redacted /\ result.field_type = URL

\* ---------------------------------------------- the redaction service

\* the spans the recognizers report: runs of whole words of the text
WordStarts(text) ==
    {s \in 0..(Len(text) - 1) : text[s + 1] # " " /\ (s = 0 \/ text[s] = " ")}

WordEnds(text) ==
    {e \in 1..Len(text) : text[e] # " " /\ (e = Len(text) \/ text[e + 1] = " ")}

RecognizerResults(text) ==
    {[start |-> s, end |-> e, field_type |-> f, redacted |-> r] :
        s \in {s \in WordStarts(text) : \E e \in WordEnds(text) : s < e},
        e \in WordEnds(text), f \in FieldTypes, r \in BOOLEAN}

Reports(text, n) ==
    UNION {{rep \in [1..k -> RecognizerResults(text)] :
               \A i \in 1..k : rep[i].start < rep[i].end} : k \in 0..n}

\* only the domains of URL spans are ever looked up
Intel(rep) ==
    {v \in [DOMAIN rep -> Verdicts] :
        \A i \in DOMAIN rep : rep[i].field_type # URL => v[i] = "benign"}

NoCalls == [redact_user |-> 0, completion |-> 0, redact_gpt |-> 0, reputation |-> 0]

\* what the program's small world holds: two user lines, one reply, and the
\* reports the redaction service gives for it
Blank == <<" ">>
Mail == <<"a", "@", "b">>
Hi == <<"h", "i">>
Ok == <<"o", "k">>
UserInputs == {Blank, Mail}
ChatContents == {ReplyD}

\* result.redacted_text of the redaction of the user's text: untouched or masked
RedactedText(text) == {text, placeholder(EMAIL_ADDRESS)}

ChatReports(text) ==
    {<<>>} \cup
    {<<r>> : r \in {x \in RecognizerResults(text) :
                       x.redacted /\ x.start = 0 /\ x.end = 7 /\ x.field_type \in {URL, NRP}}}

\* ------------------------------------------------- the conversation store

DefaultFile == "/tmp/pangea_gpt_previous.json"
ExplicitFile == "conversation.json"
Paths == {ExplicitFile, DefaultFile}

pair_raw_text(message, text) ==
    [kind |-> "tuple", message |-> message, text |-> message.content]

\* a Python tuple (message, text) appended to `previous`
pair(message, text) == [kind |-> "tuple", message |-> message, text |-> text]

\* json.dump: tuples and lists alike are written as JSON arrays
json_dump(conv) == [i \in 1..Len(conv) |-> <<conv[i].message, conv[i].text>>]

json_load_drop_last(doc) ==
    [i \in 1..(Len(doc) - 1) |->
        [kind |-> "list", message |-> doc[i][1], text |-> doc[i][2]]]

\* json.load: every JSON array is read back as a list
json_load(doc) ==
    [i \in 1..Len(doc) |-> [kind |-> "list", message |-> doc[i][1], text |-> doc[i][2]]]

get_previous_text_lenient(file, files) ==
    IF file # NoPath /\ files[file] # Nothing
    THEN [raised |-> FALSE, value |-> json_load(files[file][1])]
    ELSE IF file = NoPath /\ files[DefaultFile] # Nothing
    THEN [raised |-> FALSE, value |-> json_load(files[DefaultFile][1])]
    ELSE [raised |-> FALSE, value |-> <<>>]

get_previous_text(file, files) ==
    IF file # NoPath
    THEN IF files[file] = Nothing
         THEN [raised |-> TRUE, value |-> <<>>]
         ELSE [raised |-> FALSE, value |-> json_load(files[file][1])]
    ELSE IF files[DefaultFile] # Nothing
         THEN [raised |-> FALSE, value |-> json_load(files[DefaultFile][1])]
         ELSE [raised |-> FALSE, value |-> <<>>]

\* path = args.previous_conversation or pathlib.Path("/tmp/pangea_gpt_previous.json")
save_path(a) ==
    IF a.previous_conversation # NoPath THEN a.previous_conversation ELSE DefaultFile

\* a conversation of one turn, as an earlier run left it in a file
StoredDoc ==
    <<  <<[role |-> "user", content |-> Hi], Hi>>,
        <<[role |-> "assistant", content |-> Ok], Ok>>  >>

\* the command lines: chat [--new-conversation], serve [--bind], each with or
\* without --previous-conversation
Args ==
    {[func |-> "run_chat", new_conversation |-> n, previous_conversation |-> f,
      bind_https |-> FALSE] : n \in BOOLEAN, f \in {NoPath, ExplicitFile}}
    \cup
    {[func |-> "run_flask", new_conversation |-> FALSE, previous_conversation |-> f,
      bind_https |-> b] : b \in BOOLEAN, f \in {NoPath, ExplicitFile}}

ChatArgs == [func |-> "run_chat", new_conversation |-> FALSE,
             previous_conversation |-> NoPath, bind_https |-> FALSE]

NotFound == "ValueError: File does not exist"
NoHttps == "ValueError: pangea-gpt.py does not support https."
AdapterError == "AdapterError"

isblank(text) == \A i \in 1..Len(text) : text[i] = " "

\* ---------------------------------------------------------------- actions

\* lines 181-194: the loop body for the span at idx
Annotate ==
    /\ pc = "loop"
    /\ idx <= Len(report)
    /\ LET result == report[idx] IN
        /\ redacted_text' = annotate(redacted_text, result, intel[idx])
        /\ IF looks_up(result)
           THEN /\ url' = strip_scheme(Slice(content, result.start, result.end))
                /\ netcalls' = [netcalls EXCEPT !.reputation = @ + 1]
           ELSE UNCHANGED <<url, netcalls>>
    /\ idx' = idx + 1
    /\ UNCHANGED <<args, fs, pc, previous, edited, user_content, classified, content,
                   report, intel, reply, response, error, loaded, turn_start,
                   done, started, session, saved>>

\* line 196, and the caller's line 119-120 (run_chat) or 63 (chat)
SendReturn ==
    /\ pc = "loop"
    /\ idx > Len(report)
    /\ reply' = Some([gpt_message |-> [content |-> content, role |-> "assistant"],
                      redacted |-> redacted_text])
    /\ pc' = IF args.func = "run_chat" THEN "set_edited" ELSE "append_user"
    /\ UNCHANGED <<args, fs, previous, edited, user_content, classified, content,
                   report, intel, idx, url, redacted_text, response, error,
                   netcalls, loaded, turn_start, done, started, session, saved>>

\* the locals of a turn, as a turn starts
TurnReset ==
    /\ classified' = <<>>
    /\ content' = <<>>
    /\ report' = <<>>
    /\ intel' = <<>>
    /\ idx' = 1
    /\ url' = <<>>
    /\ redacted_text' = <<>>
    /\ reply' = Nothing
    /\ netcalls' = NoCalls

\* run_chat, lines 92-108: the conversation is loaded (or started anew), the
\* signal handlers are installed
RunChat ==
    /\ pc = "main"
    /\ args.func = "run_chat"
    /\ LET got == IF args.new_conversation
                  THEN [raised |-> FALSE, value |-> <<>>]
                  ELSE get_previous_text(args.previous_conversation, fs)
       IN IF got.raised
          THEN /\ pc' = "crashed"
               /\ error' = NotFound
               /\ UNCHANGED <<previous, loaded, turn_start>>
          ELSE /\ pc' = "input"
               /\ previous' = got.value
               /\ loaded' = got.value
               /\ turn_start' = got.value
               /\ UNCHANGED error
    /\ edited' = FALSE
    /\ UNCHANGED <<args, fs, user_content, classified, content, report, intel, idx,
                   url, redacted_text, reply, response, netcalls, done, started,
                   session, saved>>

\* run_flask, lines 75-88: the server is started; no conversation is loaded
RunFlask ==
    /\ pc = "main"
    /\ args.func = "run_flask"
    /\ IF args.bind_https
       THEN pc' = "crashed" /\ error' = NoHttps
       ELSE pc' = "serving" /\ UNCHANGED error
    /\ UNCHANGED <<args, fs, previous, edited, user_content, classified, content,
                   report, intel, idx, url, redacted_text, reply, response,
                   netcalls, loaded, turn_start, done, started, session, saved>>

\* lines 111-113: a line is read; a blank line is asked again
Input ==
    /\ pc = "input"
    /\ started < MaxTurns
    /\ \E text \in UserInputs :
        /\ user_content' = text
        /\ IF isblank(text)
           THEN UNCHANGED <<pc, started, turn_start, classified, content, report,
                            intel, idx, url, redacted_text, reply, netcalls>>
           ELSE /\ pc' = "redact_user"
                /\ started' = started + 1
                /\ turn_start' = previous
                /\ TurnReset
    /\ UNCHANGED <<args, fs, previous, edited, response, error, loaded, done,
                   session, saved>>

\* chat(), lines 55-58: a request arrives with its own `previous` and message
Request ==
    /\ pc = "serving"
    /\ started < MaxTurns
    /\ \E doc \in {<<>>, StoredDoc}, text \in UserInputs :
        /\ previous' = json_load(doc)
        /\ loaded' = json_load(doc)
        /\ turn_start' = json_load(doc)
        /\ user_content' = text
    /\ pc' = "redact_user"
    /\ started' = started + 1
    /\ done' = 0
    /\ response' = Nothing
    /\ TurnReset
    /\ UNCHANGED <<args, fs, edited, error, session, saved>>

\* line 115 (run_chat), lines 60-62 (chat): the user's text is redacted
RedactUser ==
    /\ pc = "redact_user"
    /\ \E text \in RedactedText(user_content) : classified' = text
    /\ netcalls' = [netcalls EXCEPT !.redact_user = @ + 1]
    /\ pc' = "send"
    /\ UNCHANGED <<args, fs, previous, edited, user_content, content, report, intel,
                   idx, url, redacted_text, reply, response, error, loaded,
                   turn_start, done, started, session, saved>>

\* lines 166-168: the completion service answers
Completion ==
    /\ pc = "send"
    /\ \E text \in ChatContents : content' = text
    /\ netcalls' = [netcalls EXCEPT !.completion = @ + 1]
    /\ pc' = "redact_gpt"
    /\ UNCHANGED <<args, fs, previous, edited, user_content, classified, report,
                   intel, idx, url, redacted_text, reply, response, error, loaded,
                   turn_start, done, started, session, saved>>

\* lines 169-180: the reply is redacted, the report is kept
RedactGpt ==
    /\ pc = "redact_gpt"
    /\ \E rep \in ChatReports(content) : \E v \in Intel(rep) :
        /\ report' = rep
        /\ intel' = v
    /\ redacted_text' = content
    /\ idx' = 1
    /\ netcalls' = [netcalls EXCEPT !.redact_gpt = @ + 1]
    /\ pc' = "loop"
    /\ UNCHANGED <<args, fs, previous, edited, user_content, classified, content,
                   url, reply, response, error, loaded, turn_start, done, started,
                   session, saved>>

raise_after_append(kind) ==
    /\ previous' = Append(previous, pair([role |-> "user", content |-> classified],
                                         classified))
    /\ IF args.func = "run_chat"
       THEN /\ pc' = "crashed"
            /\ error' = kind
            /\ UNCHANGED response
       ELSE /\ pc' = "serving"
            /\ response' = Some([status |-> 500, previous |-> <<>>])
            /\ UNCHANGED error

\* an exception nobody catches: it ends run_chat's process, and it ends chat()'s
\* request with a 500
raise(kind) ==
    /\ UNCHANGED previous
    /\ IF args.func = "run_chat"
       THEN /\ pc' = "crashed"
            /\ error' = kind
            /\ UNCHANGED response
       ELSE /\ pc' = "serving"
            /\ response' = Some([status |-> 500, previous |-> <<>>])
            /\ UNCHANGED error

\* line 115 / 60: the redaction of the user's text fails
RedactUserFails ==
    /\ pc = "redact_user"
    /\ netcalls' = [netcalls EXCEPT !.redact_user = @ + 1]
    /\ raise(AdapterError)
    /\ UNCHANGED <<args, fs, edited, user_content, classified, content, report,
                   intel, idx, url, redacted_text, reply, loaded, turn_start, done,
                   started, session, saved>>

\* line 166: the completion fails
CompletionFails ==
    /\ pc = "send"
    /\ netcalls' = [netcalls EXCEPT !.completion = @ + 1]
    /\ raise(AdapterError)
    /\ UNCHANGED <<args, fs, edited, user_content, classified, content, report,
                   intel, idx, url, redacted_text, reply, loaded, turn_start, done,
                   started, session, saved>>

\* lines 169-178: the redaction of the reply fails, or it holds no report
RedactGptFails ==
    /\ pc = "redact_gpt"
    /\ netcalls' = [netcalls EXCEPT !.redact_gpt = @ + 1]
    /\ raise(AdapterError)
    /\ UNCHANGED <<args, fs, edited, user_content, classified, content, report,
                   intel, idx, url, redacted_text, reply, loaded, turn_start, done,
                   started, session, saved>>

\* line 189: the reputation lookup of the span at idx fails
ReputationFails ==
    /\ pc = "loop"
    /\ idx <= Len(report)
    /\ looks_up(report[idx])
    /\ url' = strip_scheme(Slice(content, report[idx].start, report[idx].end))
    /\ netcalls' = [netcalls EXCEPT !.reputation = @ + 1]
    /\ raise(AdapterError)
    /\ UNCHANGED <<args, fs, edited, user_content, classified, content, report,
                   intel, idx, redacted_text, reply, loaded, turn_start, done,
                   started, session, saved>>

\* line 122
SetEdited ==
    /\ pc = "set_edited"
    /\ edited' = TRUE
    /\ pc' = "append_user"
    /\ UNCHANGED <<args, fs, previous, user_content, classified, content, report,
                   intel, idx, url, redacted_text, reply, response, error,
                   netcalls, loaded, turn_start, done, started, session, saved>>

\* line 123 (run_chat), line 64 (chat)
AppendUser ==
    /\ pc = "append_user"
    /\ previous' = Append(previous, pair([role |-> "user", content |-> classified],
                                         classified))
    /\ pc' = "append_gpt"
    /\ UNCHANGED <<args, fs, edited, user_content, classified, content, report,
                   intel, idx, url, redacted_text, reply, response, error,
                   netcalls, loaded, turn_start, done, started, session, saved>>

\* line 124 (run_chat); lines 65-72 (chat), where the response carries `previous`
AppendGpt ==
    /\ pc = "append_gpt"
    /\ previous' = Append(previous, pair(reply[1].gpt_message, reply[1].redacted))
    /\ done' = done + 1
    /\ IF args.func = "run_chat"
       THEN pc' = "input" /\ UNCHANGED response
       ELSE /\ pc' = "serving"
            /\ response' = Some([status |-> 200, previous |-> json_dump(previous')])
    /\ UNCHANGED <<args, fs, edited, user_content, classified, content, report,
                   intel, idx, url, redacted_text, reply, error, netcalls, loaded,
                   turn_start, started, session, saved>>

\* the positions of run_chat at which term_handler is installed
HandlerInstalled ==
    /\ args.func = "run_chat"
    /\ pc \in {"input", "redact_user", "send", "redact_gpt", "loop", "set_edited",
               "append_user", "append_gpt"}

\* term_handler, lines 98-104: SIGINT or SIGTERM, between any two steps
TermHandler ==
    /\ HandlerInstalled
    /\ IF edited
       THEN /\ fs' = [fs EXCEPT ![save_path(args)] = Some(json_dump(previous))]
            /\ saved' = [saved EXCEPT ![save_path(args)] =
                            Some([session |-> session, conv |-> previous])]
       ELSE UNCHANGED <<fs, saved>>
    /\ pc' = "exited"
    /\ UNCHANGED <<args, previous, edited, user_content, classified, content,
                   report, intel, idx, url, redacted_text, reply, response, error,
                   netcalls, loaded, turn_start, done, started, session>>

\* SIGINT or SIGTERM of the server, which installs no handler
ServerKilled ==
    /\ args.func = "run_flask"
    /\ pc = "serving"
    /\ pc' = "exited"
    /\ UNCHANGED <<args, fs, previous, edited, user_content, classified, content,
                   report, intel, idx, url, redacted_text, reply, response, error,
                   netcalls, loaded, turn_start, done, started, session, saved>>

\* the program is started again, on the files the earlier runs left
NewProcess ==
    /\ pc \in {"exited", "crashed"}
    /\ session < MaxSessions
    /\ session' = session + 1
    /\ args' \in Args
    /\ pc' = "main"
    /\ previous' = <<>>
    /\ edited' = FALSE
    /\ user_content' = <<>>
    /\ TurnReset
    /\ response' = Nothing
    /\ error' = "None"
    /\ loaded' = <<>>
    /\ turn_start' = <<>>
    /\ done' = 0
    /\ UNCHANGED <<fs, started, saved>>

Init ==
    /\ args \in Args
    /\ fs \in [Paths -> {Nothing, Some(StoredDoc)}]
    /\ pc = "main"
    /\ previous = <<>>
    /\ edited = FALSE
    /\ user_content = <<>>
    /\ classified = <<>>
    /\ content = <<>>
    /\ report = <<>>
    /\ intel = <<>>
    /\ idx = 1
    /\ url = <<>>
    /\ redacted_text = <<>>
    /\ reply = Nothing
    /\ response = Nothing
    /\ error = "None"
    /\ netcalls = NoCalls
    /\ loaded = <<>>
    /\ turn_start = <<>>
    /\ done = 0
    /\ started = 0
    /\ session = 1
    /\ saved = [p \in Paths |-> Nothing]

Next ==
    \/ RunChat
    \/ RunFlask
    \/ Input
    \/ Request
    \/ RedactUser
    \/ Completion
    \/ RedactGpt
    \/ Annotate
    \/ SendReturn
    \/ RedactUserFails
    \/ CompletionFails
    \/ RedactGptFails
    \/ ReputationFails
    \/ SetEdited
    \/ AppendUser
    \/ AppendGpt
    \/ TermHandler
    \/ ServerKilled
    \/ NewProcess

Spec == Init /\ [][Next]_vars

\* ------------------------------------------- the annotation specification

AnnotContents == {ReplyA, ReplyB}

InitAnnot ==
    /\ args = ChatArgs
    /\ fs = [p \in Paths |-> Nothing]
    /\ pc = "loop"
    /\ previous = <<>>
    /\ edited = FALSE
    /\ user_content = <<"h", "i">>
    /\ classified = <<"h", "i">>
    /\ content \in AnnotContents
    /\ report \in Reports(content, MaxSpans)
    /\ intel \in Intel(report)
    /\ idx = 1
    /\ url = <<>>
    /\ redacted_text = content
    /\ reply = Nothing
    /\ response = Nothing
    /\ error = "None"
    /\ netcalls = [NoCalls EXCEPT !.redact_user = 1, !.completion = 1, !.redact_gpt = 1]
    /\ loaded = <<>>
    /\ turn_start = <<>>
    /\ done = 0
    /\ started = 1
    /\ session = 1
    /\ saved = [p \in Paths |-> Nothing]

NextAnnot == Annotate \/ SendReturn

SpecAnnot == InitAnnot /\ [][NextAnnot]_vars

\* ----------------------------------------------- the annotated reply

\* the spans the loop replaces, and what it puts in their place
Replaced(rep, verdicts) ==
    {i \in DOMAIN rep :
        rep[i].redacted /\ (rep[i].field_type = URL => verdicts[i] = "malicious")}

Tag(result) ==
    IF result.field_type = URL THEN MALICIOUS_URL
    ELSE <<"<">> \o result.field_type \o <<">">>

NonOverlapping(rep) ==
    \A i, j \in DOMAIN rep :
        i # j => (rep[i].end <= rep[j].start \/ rep[j].end <= rep[i].start)

Ascending(rep) ==
    \A i, j \in DOMAIN rep : i < j => rep[i].end <= rep[j].start

\* what the text holds for offset p of the original: the placeholder of the span
\* that starts there, then the character there unless a replaced span covers it
PieceAt(raw, rep, E, p) ==
    LET at == {i \in E : rep[i].start = p}
        covered == \E i \in E : rep[i].start <= p /\ p < rep[i].end
    IN  (IF at # {} THEN Tag(rep[CHOOSE i \in at : TRUE]) ELSE <<>>)
        \o (IF p < Len(raw) /\ ~covered THEN <<raw[p + 1]>> ELSE <<>>)

RECURSIVE ResolvedFrom(_, _, _, _)
ResolvedFrom(raw, rep, E, p) ==
    IF p > Len(raw) THEN <<>>
    ELSE PieceAt(raw, rep, E, p) \o ResolvedFrom(raw, rep, E, p + 1)

\* every replacement resolved against the offsets of the original text
Resolved(raw, rep, E) == ResolvedFrom(raw, rep, E, 0)

Returned == reply # Nothing
Annotated == reply[1].redacted

\* C1 (as claimed): one URL span, flagged as redacted or not: masked iff the
\* verdict of its domain is malicious.
C1_UrlMaskedByVerdictAlone ==
    (Returned /\ Len(report) = 1 /\ report[1].field_type = URL) =>
        Annotated =
            IF intel[1] = "malicious"
            THEN Take(content, report[1].start) \o MALICIOUS_URL
                 \o Drop(content, report[1].end)
            ELSE content

\* C1 (amended): one URL span: masked by <MALICIOUS_URL> iff the redaction
\* service flagged it as redacted and the verdict of its domain is malicious;
\* otherwise the annotated text is the raw content.
C1_UrlMaskedWhenRedactedAndMalicious ==
    (Returned /\ Len(report) = 1 /\ report[1].field_type = URL) =>
        Annotated =
            IF report[1].redacted /\ intel[1] = "malicious"
            THEN Take(content, report[1].start) \o MALICIOUS_URL
                 \o Drop(content, report[1].end)
            ELSE content

C1_Witness ==
    /\ Returned /\ Len(report) = 1 /\ report[1].field_type = URL
    /\ report[1].redacted /\ intel[1] = "malicious"
    /\ Annotated # content
    /\ netcalls.reputation = 1

\* C2: one span that is not a URL: replaced by <field_type> iff it is flagged
\* as redacted; otherwise the annotated text is the raw content.
C2_NonUrlSpan ==
    (Returned /\ Len(report) = 1 /\ report[1].field_type # URL) =>
        Annotated =
            IF report[1].redacted
            THEN Take(content, report[1].start) \o <<"<">> \o report[1].field_type
                 \o <<">">> \o Drop(content, report[1].end)
            ELSE content

C2_Witness ==
    /\ Returned /\ Len(report) = 1 /\ report[1].field_type = EMAIL_ADDRESS
    /\ report[1].redacted
    /\ Annotated # content

\* C3: for non-overlapping spans the annotated text is the original with every
\* replacement resolved against the offsets of the original.
C3_AnnotatedIsResolved ==
    (Returned /\ NonOverlapping(report)) =>
        Annotated = Resolved(content, report, Replaced(report, intel))

SpanLen(result) == result.end - result.start

Pairs(conv) == [i \in 1..Len(conv) |-> <<conv[i].message, conv[i].text>>]

UserPair == <<[role |-> "user", content |-> classified], classified>>
GptPair == <<[content |-> content, role |-> "assistant"], redacted_text>>

\* an external call of the current turn failed
TurnFailed ==
    \/ pc = "crashed" /\ error = AdapterError
    \/ pc = "serving" /\ response # Nothing /\ response[1].status = 500

\* C4: a failed external call ends the turn: no call was made twice, no
\* annotated reply was returned, and the conversation is the one the turn
\* started with.
C4_FailedTurnLeavesConversation ==
    TurnFailed =>
        /\ previous = turn_start
        /\ Len(previous) = Len(loaded) + 2 * done
        /\ reply = Nothing
        /\ netcalls.redact_user <= 1
        /\ netcalls.completion <= 1
        /\ netcalls.redact_gpt <= 1
        /\ netcalls.reputation <= Cardinality({i \in DOMAIN report : looks_up(report[i])})
        /\ response # Nothing => response[1].previous = <<>>

C4_Witness ==
    /\ pc = "crashed" /\ error = AdapterError
    /\ netcalls.reputation = 1
    /\ done = 1
    /\ Len(previous) = 2

\* the conversation this process wrote at path p, if it wrote one
WroteAt(p) == saved[p] # Nothing /\ saved[p][1].session = session

\* C5: a snapshot written by the signal handler holds the loaded entries and
\* the entries of the completed turns, and nothing of a turn in flight.
C5_SnapshotOfCompletedTurns ==
    \A p \in Paths :
        WroteAt(p) =>
            /\ Len(saved[p][1].conv) = Len(loaded) + 2 * done
            /\ saved[p][1].conv = SubSeq(previous, 1, Len(loaded) + 2 * done)

\* C6: the signal handler writes only a conversation that differs from the one
\* the session started with.
C6_WrittenOnlyWhenChanged ==
    \A p \in Paths : WroteAt(p) => saved[p][1].conv # loaded

\* the process was started with --previous-conversation naming no file (and,
\* for serve, with a bind address it accepts)
ExplicitFileMissing ==
    /\ args.previous_conversation # NoPath
    /\ fs[args.previous_conversation] = Nothing
    /\ ~args.bind_https

NotFoundBeforeAnyCall ==
    /\ pc = "crashed"
    /\ error = NotFound
    /\ netcalls = NoCalls

\* C7 (as claimed): started in any mode with an explicit path that does not
\* exist, the program ends with the not-found error before any external call.
C7_NotFoundInEveryMode ==
    (ExplicitFileMissing /\ pc # "main") => NotFoundBeforeAnyCall

\* C7 (amended): started as chat without --new-conversation with an explicit
\* path that does not exist, the program ends with the not-found error before
\* any external call.
C7_NotFoundWhenChatLoads ==
    (/\ ExplicitFileMissing /\ pc # "main"
     /\ args.func = "run_chat" /\ ~args.new_conversation)
    => NotFoundBeforeAnyCall

C7_Witness ==
    /\ ExplicitFileMissing
    /\ args.func = "run_chat" /\ ~args.new_conversation
    /\ NotFoundBeforeAnyCall

\* this chat session loaded its conversation from the place an earlier session
\* saved one to
LoadedWhatWasSaved ==
    /\ args.func = "run_chat" /\ ~args.new_conversation
    /\ pc \notin {"main", "crashed"}
    /\ saved[save_path(args)] # Nothing
    /\ saved[save_path(args)][1].session < session

\* C8: a session that loads from the place an earlier session saved to starts
\* with the same messages and annotated texts, in the same order.
C8_SaveLoadRoundTrip ==
    LoadedWhatWasSaved => Pairs(loaded) = Pairs(saved[save_path(args)][1].conv)

C8_Witness ==
    /\ LoadedWhatWasSaved
    /\ pc = "input"
    /\ Len(loaded) = 4
    /\ loaded[4].text # loaded[4].message.content

\* C10: between turns the conversation is the loaded one followed by two
\* entries per completed turn, a user entry holding the sanitized text twice and
\* an assistant entry holding the raw reply and its annotated text; the last
\* turn left the earlier entries as they were. The `previous` of a POST /chat
\* response is the request's followed by the two entries of the turn.
C10_AppendOnly ==
    /\ (args.func = "run_chat" /\ pc = "input") =>
        /\ Len(previous) = Len(loaded) + 2 * done
        /\ SubSeq(previous, 1, Len(loaded)) = loaded
        /\ \A k \in 1..done :
            LET u == previous[Len(loaded) + 2 * k - 1]
                g == previous[Len(loaded) + 2 * k]
            IN  /\ u.message.role = "user" /\ u.message.content = u.text
                /\ g.message.role = "assistant"
        /\ done > 0 =>
            /\ SubSeq(previous, 1, Len(previous) - 2) = turn_start
            /\ Pairs(SubSeq(previous, Len(previous) - 1, Len(previous)))
                   = <<UserPair, GptPair>>
    /\ (response # Nothing /\ response[1].status = 200) =>
        response[1].previous = Pairs(loaded) \o <<UserPair, GptPair>>

C10_Witness ==
    /\ args.func = "run_chat" /\ pc = "input"
    /\ done = 2
    /\ Len(loaded) = 2
    /\ redacted_text # content

====
